---- MODULE Spec2Model ----
(***************************************************************************)
(* Model of when2play's rate-limited match-history pipeline                *)
(* (src/src/fetcher.py, MatchFetcher) and of the limiter demo              *)
(* (src/src/riot_api.py, RiotAPI).                                         *)
(*                                                                         *)
(* Time is discrete.  The limiters store, per reservation, its AGE (ticks  *)
(* since time.monotonic() was read), saturated just above the window's     *)
(* period: throttler.Throttler only ever compares curr_ts - times[0] with  *)
(* period, so an older reservation behaves like any expired one.  This     *)
(* keeps the state finite while time runs on forever.                      *)
(*                                                                         *)
(* The coroutines run on one asyncio event loop: everything a coroutine    *)
(* does between two suspensions (asyncio.sleep inside a limiter, the HTTP  *)
(* request, the gather) is one atomic action.                              *)
(***************************************************************************)
EXTENDS Integers, Sequences, FiniteSets, TLC

(* ------------------------------------------------------------------ *)
(* Bounds.  The two windows of __rate_limits (20 per 1 s, 100 per     *)
(* 120 s) are scaled down; the scaling keeps what matters: window 1   *)
(* is the smaller and shorter one and admits at a higher sustained    *)
(* rate than window 2, so that callers that passed window 1 queue up  *)
(* in front of window 2.                                              *)
(* ------------------------------------------------------------------ *)
RateLimit1 == 1
Period1 == 1
RateLimit2 == 2
Period2 == 4
\* the longest match list the service returns
MaxMatches == 2

Max(a, b) == IF a >= b THEN a ELSE b
Min(a, b) == IF a <= b THEN a ELSE b

\* MatchFetcher.__rate_limits / RiotAPI.__rate_limits
RateLimits ==
    << [rate_limit |-> RateLimit1, period |-> Period1],
       [rate_limit |-> RateLimit2, period |-> Period2] >>

\* self.limiters as built by __init_rate_limits: one Throttler per entry
limiters == RateLimits

Windows == 1..Len(limiters)

\* an age at which a reservation of window w no longer blocks anybody
Expired(w) == limiters[w].period + 1

\* ages in the request log saturate above the longest period
LogCap == Max(Period1, Period2) + 1

\* throttler.Throttler.__init__: _times = deque(0.0 for _ in range(rate_limit)),
\* read when time.monotonic() is already beyond every period
NewThrottler(w) == [k \in 1..limiters[w].rate_limit |-> Expired(w)]

\* Throttler.__aenter__: diff = curr_ts - (self._times[0] + self._period)
Diff(dq, w) == dq[1] - limiters[w].period

\* (mutation) a reservation is taken for expired when it is exactly one
\* period old
AdmitsAtBoundary(dq, w) == Diff(dq, w) >= 0

\* Throttler.__aenter__: if diff > 0: popleft and break
Admits(dq, w) == Diff(dq, w) > 0

\* (mutation) the newest timestamp is dropped instead of the oldest
ReserveDroppingNewest(dq) == Append(SubSeq(dq, 1, Len(dq) - 1), 0)

\* Throttler.__aenter__: self._times.popleft(); self._times.append(curr_ts)
Reserve(dq) == Append(Tail(dq), 0)

\* (mutation) the loop enters the first limiter only
RECURSIVE EnterFirstLimiterOnly(_, _, _)
EnterFirstLimiterOnly(ts, i, ent) ==
    IF i > 1
    THEN [times |-> ts, at |-> i, entered |-> ent, sleep |-> 0, through |-> TRUE]
    ELSE IF Admits(ts[i], i)
         THEN EnterFirstLimiterOnly([ts EXCEPT ![i] = Reserve(@)], i + 1, ent \cup {i})
         ELSE [times |-> ts, at |-> i, entered |-> ent,
               sleep |-> 0 - Diff(ts[i], i), through |-> FALSE]

\* call_api / _throttled_request: for limit in self.limiters:
\*     await stack.enter_async_context(limit)
\* resumed at limiter i with the stack holding ent.  Runs until the caller
\* either sleeps inside limiter i or has entered every limiter.
RECURSIVE EnterLimiters(_, _, _)
EnterLimiters(ts, i, ent) ==
    IF i > Len(limiters)
    THEN [times |-> ts, at |-> i, entered |-> ent, sleep |-> 0, through |-> TRUE]
    ELSE IF Admits(ts[i], i)
         THEN EnterLimiters([ts EXCEPT ![i] = Reserve(@)], i + 1, ent \cup {i})
         ELSE [times |-> ts, at |-> i, entered |-> ent,
               sleep |-> 0 - Diff(ts[i], i), through |-> FALSE]

(* ------------------------------------------------------------------ *)
(* JSON values exchanged with the service                             *)
(* ------------------------------------------------------------------ *)
Has(d, k) == k \in DOMAIN d

TargetSummoner == "target"
OtherSummoner == "other"

\* response.json() of the summoner lookup: null, or an object with or
\* without accountId / id
NullJson == [null |-> TRUE]
SummonerBodies ==
    { NullJson,
      [name |-> "n"],
      [id |-> TargetSummoner, name |-> "n"],
      [accountId |-> "acct", name |-> "n"],
      [accountId |-> "acct", id |-> TargetSummoner, name |-> "n"] }

\* a match reference at position p of the list, well formed or lacking a key
GoodRef(p) == [gameId |-> p, timestamp |-> 100 + p]
RefsAt(p) == { GoodRef(p), [timestamp |-> 100 + p], [gameId |-> p] }

RECURSIVE RefLists(_)
RefLists(n) ==
    IF n = 0 THEN { << >> }
    ELSE { Append(l, r) : l \in RefLists(n - 1), r \in RefsAt(n) }

MatchesBodies ==
    { [totalGames |-> 0] } \cup
    { [matches |-> l] : l \in UNION { RefLists(n) : n \in 0..MaxMatches } }

Identity(pid, sid) == [participantId |-> pid, player |-> [summonerId |-> sid]]
Participant(pid, w) == [participantId |-> pid, stats |-> [win |-> w]]

\* match-detail bodies the pipeline is run against
DetailBodies ==
    { \* target is participant 2 and won; participant 1 lost
      [participantIdentities |-> << Identity(1, OtherSummoner), Identity(2, TargetSummoner) >>,
       participants |-> << Participant(1, FALSE), Participant(2, TRUE) >>],
      \* target is participant 1 and lost; participant 2 won
      [participantIdentities |-> << Identity(1, TargetSummoner), Identity(2, OtherSummoner) >>,
       participants |-> << Participant(1, FALSE), Participant(2, TRUE) >>],
      \* target is not among the participants
      [participantIdentities |-> << Identity(1, OtherSummoner) >>,
       participants |-> << Participant(1, TRUE) >>],
      \* target found, no participants list
      [participantIdentities |-> << Identity(1, TargetSummoner) >>],
      \* no participantIdentities at all
      [gameId |-> 0] }

(* ------------------------------------------------------------------ *)
(* Normalisation (pure)                                               *)
(* ------------------------------------------------------------------ *)
\* index, from k on, of the first TRUE of a sequence of test results, 0 when
\* there is none (the for loops of get_participant_id and get_win_loss
\* return at the first hit)
RECURSIVE FirstIndex(_, _)
FirstIndex(hits, k) ==
    IF k > Len(hits) THEN 0
    ELSE IF hits[k] THEN k
    ELSE FirstIndex(hits, k + 1)

\* (mutation) the position in the list is returned instead of participantId
get_participant_id_position(match, summoner_id) ==
    LET ids == match.participantIdentities
        hits == [n \in 1..Len(ids) |-> ids[n].player.summonerId = summoner_id]
        k == FirstIndex(hits, 1)
    IN IF k = 0
       THEN [ok |-> FALSE, error |-> "Failed to fetch participantId"]
       ELSE [ok |-> TRUE, participant_id |-> k]

\* get_participant_id: the participantId of the first identity whose
\* player.summonerId is summoner_id, or the raise after the loop
get_participant_id(match, summoner_id) ==
    LET ids == match.participantIdentities
        hits == [n \in 1..Len(ids) |-> ids[n].player.summonerId = summoner_id]
        k == FirstIndex(hits, 1)
    IN IF k = 0
       THEN [ok |-> FALSE, error |-> "Failed to fetch participantId"]
       ELSE [ok |-> TRUE, participant_id |-> ids[k].participantId]

\* match.get("participants", [])
ParticipantsOf(match) == IF Has(match, "participants") THEN match.participants ELSE << >>

\* (mutation) a missing entry counts as a loss
get_win_loss_default(match, participant_id) ==
    LET ps == ParticipantsOf(match)
        hits == [n \in 1..Len(ps) |-> ps[n].participantId = participant_id]
        k == FirstIndex(hits, 1)
    IN IF k = 0
       THEN [ok |-> TRUE, win |-> FALSE]
       ELSE [ok |-> TRUE, win |-> ps[k].stats.win]

\* get_win_loss: stats.win of the first participants entry with that
\* participantId, or the raise after the loop
get_win_loss(match, participant_id) ==
    LET ps == ParticipantsOf(match)
        hits == [n \in 1..Len(ps) |-> ps[n].participantId = participant_id]
        k == FirstIndex(hits, 1)
    IN IF k = 0
       THEN [ok |-> FALSE, error |-> "Failed to fetch win status"]
       ELSE [ok |-> TRUE, win |-> ps[k].stats.win]

\* get_normalize_match once call_api has returned match: the record it
\* returns, or the exception that leaves the coroutine
Normalize(match, summoner_id, timestamp) ==
    IF ~Has(match, "participantIdentities")
    THEN [ok |-> FALSE, error |-> "KeyError"]
    ELSE LET p == get_participant_id(match, summoner_id)
         IN IF ~p.ok THEN p
            ELSE LET w == get_win_loss(match, p.participant_id)
                 IN IF ~w.ok THEN w
                    ELSE [ok |-> TRUE,
                          value |-> [timestamp |-> timestamp, win |-> w.win]]

(* ------------------------------------------------------------------ *)
(* State                                                              *)
(* ------------------------------------------------------------------ *)
\* caller 0 is the coroutine get_match_history, caller i >= 1 the task
\* created for the i-th entry of match_history["matches"]
Main == 0
Tasks == 1..MaxMatches
Callers == {Main} \cup Tasks

VARIABLES
    times,          \* times[w]: limiter w's deque _times, as ages, oldest first
    mainpc,         \* where get_match_history is
    cst,            \* cst[c]: where caller c is inside call_api
    at,             \* at[c]: the limiter caller c is entering (the for loop's position)
    entered,        \* entered[c]: the limiters on caller c's AsyncExitStack
    wake,           \* wake[c]: ticks left of caller c's asyncio.sleep
    tpc,            \* tpc[i]: state of task i
    args,           \* args[i]: summoner_id, game_id, timestamp given to task i
    tres,           \* tres[i]: what task i returned or raised
    detail,         \* detail[i]: the response task i's request got
    summoner_info,  \* the summoner lookup's response
    match_history,  \* the match list's response
    sent,           \* every call that reached _request, in order, with its age
    taken,          \* taken[w]: how many reservations limiter w has handed out
    reserved,       \* reserved[w]: the age of every reservation limiter w handed out
    matches,        \* the list get_match_history prints
    error           \* the exception that left get_match_history, "" if none

vars == << times, mainpc, cst, at, entered, wake, tpc, args, tres, detail,
           summoner_info, match_history, sent, taken, reserved, matches, error >>

\* the call state of a caller that is not inside call_api
NoArgs == [summoner_id |-> "", game_id |-> 0, timestamp |-> 0]
NoResult == [ok |-> FALSE, error |-> ""]
NoBody == [none |-> TRUE]
\* a request that raises: raise_for_status=True, a network fault, a body
\* that is not JSON
HttpError == [raised |-> "ClientError"]

Init ==
    /\ times = [w \in Windows |-> NewThrottler(w)]
    /\ mainpc = "init"
    /\ cst = [c \in Callers |-> "idle"]
    /\ at = [c \in Callers |-> 1]
    /\ entered = [c \in Callers |-> {}]
    /\ wake = [c \in Callers |-> 0]
    /\ tpc = [i \in Tasks |-> "none"]
    /\ args = [i \in Tasks |-> NoArgs]
    /\ tres = [i \in Tasks |-> NoResult]
    /\ detail = [i \in Tasks |-> NoBody]
    /\ summoner_info = NoBody
    /\ match_history = NoBody
    /\ sent = << >>
    /\ taken = [w \in Windows |-> 0]
    /\ reserved = [w \in Windows |-> << >>]
    /\ matches = << >>
    /\ error = ""

(* ------------------------------------------------------------------ *)
(* call_api                                                           *)
(* ------------------------------------------------------------------ *)
\* call_api from its first line: an empty AsyncExitStack, the first limiter
BeginCall == EnterLimiters(times, 1, {})

\* call_api resumed after the asyncio.sleep inside limiter at[c]
ResumeCall(c) == EnterLimiters(times, at[c], entered[c])

\* the reservations handed out so far, after a run r of the limiter loop
\* that began with the stack holding ent
Counted(ent, r) ==
    [w \in Windows |-> IF w \in r.entered \ ent THEN taken[w] + 1 ELSE taken[w]]

\* every self._times.append(curr_ts) of that run, kept for good: the ages of
\* the reservations each limiter has handed out, oldest first
Logged(ent, r) ==
    [w \in Windows |-> IF w \in r.entered \ ent THEN Append(reserved[w], 0) ELSE reserved[w]]

\* the query string of caller c's request to endpoint ep: the game id for a
\* match detail
QueryOf(c, ep) ==
    IF c # Main THEN args[c].game_id
    ELSE IF ep = "SUMMONER" THEN "username" ELSE "accountId"

\* the effect on the caller's call state of a run r of the limiter loop by
\* caller c for endpoint ep, begun with the stack holding ent: either c now
\* sleeps inside a limiter, or it has reached self._request(client, url)
Called(c, ep, ent, r) ==
    /\ times' = r.times
    /\ at' = [at EXCEPT ![c] = r.at]
    /\ entered' = [entered EXCEPT ![c] = r.entered]
    /\ wake' = [wake EXCEPT ![c] = r.sleep]
    /\ cst' = [cst EXCEPT ![c] = IF r.through THEN "request" ELSE "sleep"]
    /\ taken' = Counted(ent, r)
    /\ reserved' = Logged(ent, r)
    /\ sent' = IF r.through
               THEN Append(sent, [who |-> c, ep |-> ep, query |-> QueryOf(c, ep),
                                  age |-> 0, held |-> r.entered])
               ELSE sent

\* (mutation) one exit stack for all callers: leaving call_api unwinds
\* everybody's call
ReturnedSharedStack(c) ==
    /\ at' = [x \in Callers |-> 1]
    /\ entered' = [x \in Callers |-> {}]
    /\ wake' = [x \in Callers |-> 0]
    /\ cst' = [x \in Callers |-> "idle"]

\* leaving the async with of call_api, by return or by exception: the
\* stack's limiters are exited, and Throttler.__aexit__ does nothing
Returned(c) ==
    /\ at' = [at EXCEPT ![c] = 1]
    /\ entered' = [entered EXCEPT ![c] = {}]
    /\ wake' = [wake EXCEPT ![c] = 0]
    /\ cst' = [cst EXCEPT ![c] = "idle"]

EndpointOf(c) ==
    IF c # Main THEN "MATCH"
    ELSE IF mainpc = "summoner" THEN "SUMMONER" ELSE "MATCHES"

\* (mutation) a failure restarts the run instead of ending it
AbortAndRetry(e) ==
    /\ mainpc' = "init"
    /\ error' = e

\* an exception leaves get_match_history (and asyncio.run)
Abort(e) ==
    /\ mainpc' = "aborted"
    /\ error' = e

(* ------------------------------------------------------------------ *)
(* Actions                                                            *)
(* ------------------------------------------------------------------ *)
\* get_match_history up to its first suspension: call_api(SUMMONER)
Start ==
    /\ mainpc = "init"
    /\ mainpc' = "summoner"
    /\ Called(Main, "SUMMONER", {}, BeginCall)
    /\ UNCHANGED << tpc, args, tres, detail, summoner_info, match_history,
                    matches, error >>

\* a caller's asyncio.sleep is over (now or some time ago): it runs the
\* limiter loop again.  Tasks left behind by an aborted run are cancelled
\* by asyncio.run before they wake.
Wake(c) ==
    /\ cst[c] = "sleep"
    /\ wake[c] = 0
    /\ mainpc # "aborted"
    /\ Called(c, EndpointOf(c), entered[c], ResumeCall(c))
    /\ UNCHANGED << mainpc, tpc, args, tres, detail, summoner_info,
                    match_history, matches, error >>

\* (mutation) the accountId check is missing
SummonerOkUnchecked(resp) ==
    /\ resp # HttpError
    /\ resp # NullJson

\* the request did not raise, and get_match_history's two checks pass:
\* summoner_info is not None, summoner_info.get("accountId") is not None
SummonerOk(resp) ==
    /\ resp # HttpError
    /\ resp # NullJson
    /\ Has(resp, "accountId")

\* (mutation) the id is checked along with accountId
AccountIdOrIdMissing(resp) == ~Has(resp, "accountId") \/ ~Has(resp, "id")

\* account_id = summoner_info.get("accountId") is None
AccountIdMissing(resp) == ~Has(resp, "accountId")

\* the summoner lookup returns resp or raises; on success the coroutine
\* goes on into call_api(MATCHES)
SummonerResponse(resp) ==
    /\ mainpc = "summoner"
    /\ cst[Main] = "request"
    /\ \/ /\ resp = HttpError
          /\ Abort("ClientError")
          /\ Returned(Main)
          /\ UNCHANGED << times, sent, taken, reserved, summoner_info >>
       \/ /\ resp = NullJson
          /\ Abort("Failed to get info for summoner")
          /\ Returned(Main)
          /\ summoner_info' = resp
          /\ UNCHANGED << times, sent, taken, reserved >>
       \/ /\ resp \notin {HttpError, NullJson}
          /\ AccountIdMissing(resp)
          /\ Abort("No key accountId")
          /\ Returned(Main)
          /\ summoner_info' = resp
          /\ UNCHANGED << times, sent, taken, reserved >>
       \/ /\ SummonerOk(resp)
          /\ summoner_info' = resp
          /\ mainpc' = "matches"
          /\ Called(Main, "MATCHES", {}, BeginCall)
          /\ UNCHANGED error
    /\ UNCHANGED << tpc, args, tres, detail, match_history, matches >>

\* whether the loop body of get_match_history gets through for match ref:
\* summoner_info["id"], match["gameId"], match["timestamp"]
RefOk(info, ref) ==
    /\ Has(info, "id")
    /\ Has(ref, "gameId")
    /\ Has(ref, "timestamp")

\* (mutation) summoner_info["id"] is read before the loop
FirstBadRefIdHoisted(info, refs) ==
    IF ~Has(info, "id") THEN 1
    ELSE FirstIndex([n \in 1..Len(refs) |-> ~RefOk(info, refs[n])], 1)

\* position of the first entry on which the loop raises KeyError, 0 if none
FirstBadRef(info, refs) ==
    FirstIndex([n \in 1..Len(refs) |-> ~RefOk(info, refs[n])], 1)

\* (mutation) the fan-out is capped at one task
LaunchedCapped(info, refs) ==
    IF FirstBadRef(info, refs) = 0 THEN 1..Min(Len(refs), 1)
    ELSE 1..Min(FirstBadRef(info, refs) - 1, 1)

\* the positions for which the loop got to asyncio.ensure_future(coro)
Launched(info, refs) ==
    IF FirstBadRef(info, refs) = 0 THEN 1..Len(refs)
    ELSE 1..(FirstBadRef(info, refs) - 1)

\* the match list returns resp or raises; on success the coroutine creates
\* one task per entry and awaits gather
MatchesResponse(resp) ==
    /\ mainpc = "matches"
    /\ cst[Main] = "request"
    /\ Returned(Main)
    /\ \/ /\ resp = HttpError
          /\ Abort("ClientError")
          /\ UNCHANGED << match_history, tpc, args, matches >>
       \/ /\ resp # HttpError
          /\ ~Has(resp, "matches")
          /\ Abort("KeyError")
          /\ match_history' = resp
          /\ UNCHANGED << tpc, args, matches >>
       \/ /\ resp # HttpError
          /\ Has(resp, "matches")
          /\ match_history' = resp
          /\ LET refs == resp.matches
                 on == Launched(summoner_info, refs)
             IN /\ tpc' = [i \in Tasks |-> IF i \in on THEN "scheduled" ELSE "none"]
                /\ args' = [i \in Tasks |->
                              IF i \in on
                              THEN [summoner_id |-> summoner_info.id,
                                    game_id |-> refs[i].gameId,
                                    timestamp |-> refs[i].timestamp]
                              ELSE NoArgs]
                /\ \/ /\ FirstBadRef(summoner_info, refs) # 0
                      /\ Abort("KeyError")
                      /\ UNCHANGED matches
                   \/ /\ FirstBadRef(summoner_info, refs) = 0
                      /\ Len(refs) = 0
                      \* gather() of nothing is already done: no suspension
                      /\ mainpc' = "done"
                      /\ matches' = << >>
                      /\ UNCHANGED error
                   \/ /\ FirstBadRef(summoner_info, refs) = 0
                      /\ Len(refs) > 0
                      /\ mainpc' = "gather"
                      /\ UNCHANGED << matches, error >>
    /\ UNCHANGED << times, sent, taken, reserved, tres, detail, summoner_info >>

\* task i runs get_normalize_match up to its first suspension.  A task of
\* an aborted run finds the ClientSession closed when it gets to
\* client.get: it has taken its reservations and sends nothing.
TaskStart(i) ==
    /\ tpc[i] = "scheduled"
    /\ \/ /\ mainpc = "gather"
          /\ tpc' = [tpc EXCEPT ![i] = "running"]
          /\ Called(i, "MATCH", {}, BeginCall)
          /\ UNCHANGED tres
       \/ /\ mainpc = "aborted"
          /\ ~BeginCall.through
          /\ tpc' = [tpc EXCEPT ![i] = "running"]
          /\ Called(i, "MATCH", {}, BeginCall)
          /\ UNCHANGED tres
       \/ /\ mainpc = "aborted"
          /\ BeginCall.through
          /\ times' = BeginCall.times
          /\ taken' = Counted({}, BeginCall)
          /\ reserved' = Logged({}, BeginCall)
          /\ tpc' = [tpc EXCEPT ![i] = "failed"]
          /\ tres' = [tres EXCEPT ![i] = [ok |-> FALSE, error |-> "Session is closed"]]
          /\ UNCHANGED << cst, at, entered, wake, sent >>
    /\ UNCHANGED << mainpc, args, detail, summoner_info, match_history,
                    matches, error >>

\* asyncio.run cancels what an aborted run left sleeping in a limiter
CancelOrphan(i) ==
    /\ mainpc = "aborted"
    /\ tpc[i] = "running"
    /\ tpc' = [tpc EXCEPT ![i] = "cancelled"]
    /\ Returned(i)
    /\ UNCHANGED << times, mainpc, args, tres, detail, summoner_info,
                    match_history, sent, taken, reserved, matches, error >>

\* task i is suspended in client.get: its request is in flight
InFlight(i) ==
    /\ mainpc = "gather"
    /\ tpc[i] = "running"
    /\ cst[i] = "request"

\* (mutation) the timestamp is taken by completion order: the n-th task to
\* finish gets the timestamp of the n-th reference
DetailResponseByOrder(i, resp) ==
    /\ InFlight(i)
    /\ Returned(i)
    /\ detail' = [detail EXCEPT ![i] = resp]
    /\ LET n == 1 + Cardinality({ j \in Tasks : tpc[j] \in {"done", "failed"} })
           r == IF resp = HttpError
                THEN [ok |-> FALSE, error |-> "ClientError"]
                ELSE Normalize(resp, args[i].summoner_id, args[n].timestamp)
       IN /\ tres' = [tres EXCEPT ![i] = r]
          /\ tpc' = [tpc EXCEPT ![i] = IF r.ok THEN "done" ELSE "failed"]
    /\ UNCHANGED << times, mainpc, args, summoner_info, match_history, sent,
                    taken, reserved, matches, error >>

\* task i's request returns resp or raises, and the task runs to its end
DetailResponse(i, resp) ==
    /\ InFlight(i)
    /\ Returned(i)
    /\ detail' = [detail EXCEPT ![i] = resp]
    /\ LET r == IF resp = HttpError
                THEN [ok |-> FALSE, error |-> "ClientError"]
                ELSE Normalize(resp, args[i].summoner_id, args[i].timestamp)
       IN /\ tres' = [tres EXCEPT ![i] = r]
          /\ tpc' = [tpc EXCEPT ![i] = IF r.ok THEN "done" ELSE "failed"]
    /\ UNCHANGED << times, mainpc, args, summoner_info, match_history, sent,
                    taken, reserved, matches, error >>

\* (mutation) gather without return_exceptions
return_exceptions_off == FALSE

\* asyncio.gather(*tasks, return_exceptions=True)
return_exceptions == TRUE

\* (mutation) the results come in the order in which the requests went out
TaskListAsSent == [k \in 1..(Len(sent) - 2) |-> sent[k + 2].who]

\* the tasks gather waits for, in the order of the list tasks
TaskList == SelectSeq([i \in Tasks |-> i], LAMBDA i : tpc[i] # "none")

\* (mutation) the isinstance test is missing: every result is appended
CollectAll(results) ==
    [k \in 1..Len(results) |->
        IF results[k].ok THEN results[k].value ELSE [timestamp |-> 0, win |-> FALSE]]

\* for match in results: if isinstance(match, Exception): continue;
\* matches.append(match)
RECURSIVE Collect(_)
Collect(results) ==
    IF results = << >> THEN << >>
    ELSE IF Head(results).ok
         THEN << Head(results).value >> \o Collect(Tail(results))
         ELSE Collect(Tail(results))

\* the await of gather returns (every task is finished) and the results
\* are filtered and printed; without return_exceptions the first failure
\* would leave gather as an exception
Gather ==
    /\ mainpc = "gather"
    /\ LET failed == { i \in Tasks : tpc[i] = "failed" }
           results == [k \in 1..Len(TaskList) |-> tres[TaskList[k]]]
       IN IF ~return_exceptions /\ failed # {}
          THEN /\ Abort(tres[CHOOSE i \in failed : TRUE].error)
               /\ UNCHANGED matches
          ELSE /\ \A i \in Tasks : tpc[i] \in {"none", "done", "failed"}
               /\ mainpc' = "done"
               /\ matches' = Collect(results)
               /\ UNCHANGED error
    /\ UNCHANGED << times, cst, at, entered, wake, tpc, args, tres, detail,
                    summoner_info, match_history, sent, taken, reserved >>

\* one tick of time.monotonic(): every reservation ages, every sleep
\* shortens
Tick ==
    /\ times' = [w \in Windows |->
                   [k \in 1..Len(times[w]) |-> Min(times[w][k] + 1, Expired(w))]]
    /\ wake' = [c \in Callers |-> Max(wake[c] - 1, 0)]
    /\ sent' = [k \in 1..Len(sent) |-> [sent[k] EXCEPT !.age = Min(@ + 1, LogCap)]]
    /\ reserved' = [w \in Windows |->
                      [k \in 1..Len(reserved[w]) |-> Min(reserved[w][k] + 1, Expired(w))]]
    /\ UNCHANGED << mainpc, cst, at, entered, tpc, args, tres, detail,
                    summoner_info, match_history, taken, matches, error >>

Next ==
    \/ Start
    \/ \E c \in Callers : Wake(c)
    \/ \E resp \in SummonerBodies \cup {HttpError} : SummonerResponse(resp)
    \/ \E resp \in MatchesBodies \cup {HttpError} : MatchesResponse(resp)
    \/ \E i \in Tasks : TaskStart(i)
    \/ \E i \in Tasks : CancelOrphan(i)
    \/ \E i \in Tasks :
          InFlight(i) /\ \E resp \in DetailBodies \cup {HttpError} : DetailResponse(i, resp)
    \/ Gather
    \/ Tick

Spec == Init /\ [][Next]_vars

\* what the event loop, the clock and the service guarantee: time goes on,
\* a coroutine that can run is run, a request that was sent is answered
Fairness ==
    /\ WF_vars(Tick)
    /\ WF_vars(Start)
    /\ WF_vars(Gather)
    /\ WF_vars(\E resp \in SummonerBodies \cup {HttpError} : SummonerResponse(resp))
    /\ WF_vars(\E resp \in MatchesBodies \cup {HttpError} : MatchesResponse(resp))
    /\ \A c \in Callers : WF_vars(Wake(c))
    /\ \A i \in Tasks :
          /\ WF_vars(TaskStart(i))
          /\ WF_vars(CancelOrphan(i))
          /\ WF_vars(\E resp \in DetailBodies \cup {HttpError} : DetailResponse(i, resp))

FairSpec == Spec /\ Fairness

(* ------------------------------------------------------------------ *)
(* The normaliser run on every small match detail                     *)
(* ------------------------------------------------------------------ *)
\* the longest participantIdentities / participants list
MaxParticipants == 2

RECURSIVE SeqsUpTo(_, _)
SeqsUpTo(S, n) ==
    IF n = 0 THEN { << >> }
    ELSE SeqsUpTo(S, n - 1) \cup
         { Append(q, x) : q \in { r \in SeqsUpTo(S, n - 1) : Len(r) = n - 1 }, x \in S }

\* the participantIds in use
ParticipantIds == {1, 2}

AllIdentities ==
    SeqsUpTo({ Identity(pid, sid) : pid \in ParticipantIds,
                                    sid \in {TargetSummoner, OtherSummoner} },
             MaxParticipants)

AllParticipants ==
    SeqsUpTo({ Participant(pid, w) : pid \in ParticipantIds, w \in BOOLEAN },
             MaxParticipants)

AllDetails ==
    { [participantIdentities |-> ids, participants |-> ps] :
          ids \in AllIdentities, ps \in AllParticipants } \cup
    { [participantIdentities |-> ids] : ids \in AllIdentities }

\* a run for a summoner with one match, whose detail is any of AllDetails
NextNormalize ==
    \/ Start
    \/ \E c \in Callers : Wake(c)
    \/ SummonerResponse([accountId |-> "acct", id |-> TargetSummoner, name |-> "n"])
    \/ MatchesResponse([matches |-> << GoodRef(1) >>])
    \/ \E i \in Tasks : TaskStart(i)
    \/ \E i \in Tasks :
          InFlight(i) /\ \E resp \in AllDetails : DetailResponse(i, resp)
    \/ Gather
    \/ Tick

SpecNormalize == Init /\ [][NextNormalize]_vars

(* ------------------------------------------------------------------ *)
(* Properties                                                         *)
(* ------------------------------------------------------------------ *)
AllWindows == 1..Len(RateLimits)

\* positions in the request log of the requests to endpoint ep, by caller c
SentTo(ep) == { k \in 1..Len(sent) : sent[k].ep = ep }
SentBy(c) == { k \in 1..Len(sent) : sent[k].who = c }

\* the endpoints of the request log, in order
Endpoints == [k \in 1..Len(sent) |-> sent[k].ep]

\* the match references of the stage-2 response, once it is there
GotMatches == Has(match_history, "matches")
Refs == IF GotMatches THEN match_history.matches ELSE << >>

LaunchedTasks == { i \in Tasks : tpc[i] # "none" }
FailedTasks == { i \in Tasks : tpc[i] = "failed" }

\* task i's request has been answered with a JSON body
Answered(i) == detail[i] # NoBody /\ detail[i] # HttpError

\* the positions of the identities of d that belong to summoner sid, and of
\* the participants entries of d with participantId pid
IdentityHits(d, sid) ==
    { k \in 1..Len(d.participantIdentities) :
          d.participantIdentities[k].player.summonerId = sid }
ParticipantHits(d, pid) ==
    IF Has(d, "participants")
    THEN { k \in 1..Len(d.participants) : d.participants[k].participantId = pid }
    ELSE {}
Least(S) == CHOOSE k \in S : \A j \in S : k <= j

\* what the specification expects of a task that got response d for target
\* sid and a reference with timestamp ts
Expected(d, sid, ts) ==
    IF d = HttpError THEN [ok |-> FALSE, error |-> "ClientError"]
    ELSE IF ~Has(d, "participantIdentities") THEN [ok |-> FALSE, error |-> "KeyError"]
    ELSE IF IdentityHits(d, sid) = {}
         THEN [ok |-> FALSE, error |-> "Failed to fetch participantId"]
    ELSE LET pid == d.participantIdentities[Least(IdentityHits(d, sid))].participantId
         IN IF ParticipantHits(d, pid) = {}
            THEN [ok |-> FALSE, error |-> "Failed to fetch win status"]
            ELSE [ok |-> TRUE,
                  value |-> [timestamp |-> ts,
                             win |-> d.participants[Least(ParticipantHits(d, pid))].stats.win]]

\* the calls that reached _request during the last period(w) ticks
SentWithin(w) ==
    { k \in 1..Len(sent) : sent[k].age < RateLimits[w].period }

\* C1: for both configured windows at once, the number of requests that
\* passed all limiters and reached _request inside any interval of length
\* period never exceeds that window's capacity.
C1_RollingWindowRespected ==
    \A w \in AllWindows :
        Cardinality(SentWithin(w)) <= RateLimits[w].rate_limit

\* C2: every request of every stage is sent only by a caller that holds a
\* reservation of every configured window; no request is sent on a subset
\* of the windows, and every window has handed out at least one reservation
\* per request sent, whatever its stage.
C2_EveryRequestHoldsEveryWindow ==
    /\ \A k \in 1..Len(sent) : sent[k].held = AllWindows
    /\ \A c \in Callers : cst[c] = "request" => entered[c] = AllWindows
    /\ \A w \in AllWindows : taken[w] >= Len(sent)

\* requests of all three stages have been sent, one per task
C2_Witness ==
    /\ SentTo("SUMMONER") # {}
    /\ SentTo("MATCHES") # {}
    /\ Cardinality(SentTo("MATCH")) = MaxMatches

\* C3: a run whose stages 1 and 2 succeeded with K references, M of whose
\* tasks failed, ends without an exception and with exactly K - M matches;
\* and no run is aborted once a stage-3 task has got its answer.
C3_PartialFailuresTolerated ==
    /\ mainpc = "done" =>
          /\ error = ""
          /\ Len(matches) = Len(Refs) - Cardinality(FailedTasks)
    /\ mainpc = "aborted" => \A i \in Tasks : detail[i] = NoBody

\* a finished run with a failed and a successful task
C3_Witness ==
    /\ mainpc = "done"
    /\ Cardinality(FailedTasks) >= 1
    /\ Len(matches) >= 1

\* C4: the match-list request is sent only after the summoner lookup has
\* returned a body with an accountId, and no task takes a reservation or
\* sends a request before the match list has been received.
C4_StagesInOrder ==
    /\ \A k \in SentTo("MATCHES") :
          /\ k = 2
          /\ sent[1].ep = "SUMMONER"
          /\ Has(summoner_info, "accountId")
    /\ \A k \in SentTo("MATCH") : k > 2
    /\ \A i \in Tasks :
          (tpc[i] # "none" \/ entered[i] # {} \/ cst[i] # "idle" \/ SentBy(i) # {})
              => GotMatches /\ Cardinality(SentTo("MATCHES")) = 1

\* a task's request is in flight
C4_Witness ==
    \E i \in Tasks : cst[i] = "request" /\ SentBy(i) # {}

\* the run was aborted by the summoner lookup / by the match-list request
\* (it raised, or its body lacks what get_match_history reads first)
FailedAtStage1 == mainpc = "aborted" /\ ~Has(summoner_info, "accountId")
FailedAtStage2 ==
    mainpc = "aborted" /\ Has(summoner_info, "accountId") /\ ~GotMatches

\* C5: a run that fails in stage 1 has sent the summoner lookup and nothing
\* else; a run that fails in stage 2 (request error, no matches collection)
\* has sent the lookup and the match list and no match detail; neither
\* request is ever sent twice.
C5_FatalFailuresStopTheRun ==
    /\ FailedAtStage1 => Endpoints = << "SUMMONER" >> /\ LaunchedTasks = {}
    /\ FailedAtStage2 => Endpoints = << "SUMMONER", "MATCHES" >> /\ LaunchedTasks = {}
    /\ Cardinality(SentTo("SUMMONER")) <= 1
    /\ Cardinality(SentTo("MATCHES")) <= 1
    /\ mainpc \in {"aborted", "done"} => Cardinality(SentTo("SUMMONER")) = 1

\* the match list came back without a matches collection
C5_Witness == FailedAtStage2 /\ match_history # NoBody

\* every entry of the match list has a gameId and a timestamp
RefsWellFormed ==
    \A k \in 1..Len(Refs) : Has(Refs[k], "gameId") /\ Has(Refs[k], "timestamp")

\* C6 as stated: whenever the match list has K well-formed references,
\* exactly K tasks are launched, one per reference.
C6_AsStated ==
    (GotMatches /\ RefsWellFormed) => LaunchedTasks = 1..Len(Refs)

\* C6: when the summoner response carries an id and the match list has K
\* well-formed references, the orchestrator goes on to the join with exactly
\* one task launched per reference, each for its own reference; no task
\* sends more than one request; a finished run has sent 2 + K requests,
\* one per task.
C6_OneTaskPerReference ==
    /\ (GotMatches /\ RefsWellFormed /\ Has(summoner_info, "id")) =>
          /\ Len(Refs) > 0 => mainpc \in {"gather", "done"}
          /\ LaunchedTasks = 1..Len(Refs)
          /\ \A i \in LaunchedTasks :
                /\ args[i].summoner_id = summoner_info.id
                /\ args[i].game_id = Refs[i].gameId
                /\ args[i].timestamp = Refs[i].timestamp
    /\ \A i \in Tasks : Cardinality(SentBy(i)) <= 1
    /\ mainpc = "done" =>
          /\ Len(sent) = 2 + Len(Refs)
          /\ \A i \in 1..Len(Refs) : Cardinality(SentBy(i) \cap SentTo("MATCH")) = 1

\* a finished run over a list of MaxMatches references
C6_Witness ==
    /\ mainpc = "done"
    /\ Len(Refs) = MaxMatches
    /\ Len(sent) = 2 + MaxMatches

\* C7: a match list with no entry ends the run normally with an empty
\* result: no task, no match-detail request, and two reservations per
\* window, those of stages 1 and 2.
C7_EmptyListShortCircuits ==
    (GotMatches /\ Len(Refs) = 0) =>
        /\ mainpc = "done"
        /\ error = ""
        /\ matches = << >>
        /\ LaunchedTasks = {}
        /\ Endpoints = << "SUMMONER", "MATCHES" >>
        /\ \A w \in AllWindows : taken[w] = 2

\* a run that got an empty match list, some ticks later
C7_Witness ==
    /\ GotMatches
    /\ Len(Refs) = 0
    /\ mainpc = "done"
    /\ sent[2].age > 0

\* C8: when the detail has an identity of the target summoner and a
\* participants entry with the participantId of the first such identity,
\* the task returns the reference's timestamp with stats.win of the first
\* such participants entry.
C8_NormalizedFromOwnParticipant ==
    \A i \in Tasks :
        (/\ Answered(i)
         /\ Has(detail[i], "participantIdentities")
         /\ IdentityHits(detail[i], args[i].summoner_id) # {}
         /\ ParticipantHits(detail[i],
                detail[i].participantIdentities[
                    Least(IdentityHits(detail[i], args[i].summoner_id))].participantId) # {})
        => LET d == detail[i]
               pid == d.participantIdentities[
                          Least(IdentityHits(d, args[i].summoner_id))].participantId
               m == Least(ParticipantHits(d, pid))
           IN /\ tpc[i] = "done"
              /\ tres[i] = [ok |-> TRUE,
                            value |-> [timestamp |-> Refs[i].timestamp,
                                       win |-> d.participants[m].stats.win]]

\* the target has two identities; the first one's participantId is not that
\* of the first participants entry, whose win flag is the other way round
C8_Witness ==
    /\ tpc[1] = "done"
    /\ Cardinality(IdentityHits(detail[1], TargetSummoner)) = 2
    /\ detail[1].participantIdentities[1].participantId
          # detail[1].participantIdentities[2].participantId
    /\ detail[1].participants[1].participantId
          # detail[1].participantIdentities[1].participantId
    /\ detail[1].participants[1].stats.win # tres[1].value.win

\* task i's detail has identities, none of them the target's
ParticipantMissing(i) ==
    /\ Answered(i)
    /\ Has(detail[i], "participantIdentities")
    /\ IdentityHits(detail[i], args[i].summoner_id) = {}

\* C9: a task whose detail has no identity of the target fails with the
\* participant-not-found error; the run is not aborted, no sibling is
\* cancelled, every answered sibling has the outcome its own answer
\* determines, and the join returns only when every sibling has finished.
C9_MissingParticipantIsIsolated ==
    \A i \in Tasks :
        ParticipantMissing(i) =>
            /\ tpc[i] = "failed"
            /\ tres[i] = [ok |-> FALSE, error |-> "Failed to fetch participantId"]
            /\ mainpc \in {"gather", "done"}
            /\ \A j \in LaunchedTasks \ {i} :
                  /\ tpc[j] # "cancelled"
                  /\ detail[j] # NoBody =>
                        tres[j] = Expected(detail[j], args[j].summoner_id,
                                           args[j].timestamp)
                  /\ mainpc = "done" => tpc[j] \in {"done", "failed"}

\* a finished run in which a task failed for a missing participant and
\* a sibling succeeded
C9_Witness ==
    \E i, j \in Tasks :
        /\ ParticipantMissing(i)
        /\ tpc[j] = "done"
        /\ mainpc = "done"
        /\ Len(matches) = 1

\* C10: under Fairness, every caller that sleeps inside a limiter is
\* eventually admitted through all windows, every launched task eventually
\* ends with a result or a failure, and the join eventually returns.
C10_EveryoneGetsThrough ==
    /\ \A c \in Callers : (cst[c] = "sleep") ~> (cst[c] = "request")
    /\ \A i \in Tasks :
          (tpc[i] \in {"scheduled", "running"}) ~> (tpc[i] \in {"done", "failed"})
    /\ (mainpc = "gather") ~> (mainpc = "done")

\* the same for the runs that are not aborted: the limiters themselves
\* neither deadlock nor starve a caller
GetsThroughUnlessAborted ==
    /\ \A c \in Callers :
          (cst[c] = "sleep") ~> (cst[c] = "request" \/ mainpc = "aborted")
    /\ \A i \in Tasks :
          (tpc[i] \in {"scheduled", "running"})
              ~> (tpc[i] \in {"done", "failed"} \/ mainpc = "aborted")
    /\ (mainpc = "gather") ~> (mainpc = "done")
    /\ <>(mainpc \in {"done", "aborted"})

(* ------------------------------------------------------------------ *)
(* Diagnostics                                                        *)
(* ------------------------------------------------------------------ *)
\* what the pipeline writes to the log: log.debug(url) in _request, one
\* record per request that is sent, and nothing else
LogRecords ==
    [k \in 1..Len(sent) |-> [level |-> "DEBUG", about |-> "request", url |-> sent[k].ep]]

\* the log records that tell of a failed task
FailureRecords == { k \in 1..Len(LogRecords) : LogRecords[k].about = "failure" }

\* C11: after a run in which M stage-3 tasks failed, the log holds a record
\* of each of the M failures.
C11_FailuresObservable ==
    mainpc = "done" => Cardinality(FailureRecords) = Cardinality(FailedTasks)

\* C12: a caller reserves in all windows at once or in none: no caller
\* sleeps in front of one window while holding a reservation of another,
\* and no window has handed out a reservation to a caller that has not been
\* let through to send.
C12_AllOrNothing ==
    /\ \A c \in Callers : cst[c] = "sleep" => entered[c] = {}
    /\ \A w \in AllWindows : Len(reserved[w]) <= Len(sent)

\* the reservations among ages that still block a caller of window w
Unexpired(ages, w) == SelectSeq(ages, LAMBDA a : a <= limiters[w].period)

\* C13: in every reachable state each window holds at most rate_limit
\* unexpired reservations; every unexpired reservation that was handed out
\* is still in the limiter's deque (none is lost, none is counted twice),
\* and the deque never holds more or fewer than rate_limit entries.
C13_WindowNeverOverbooked ==
    \A w \in AllWindows :
        /\ Len(times[w]) = RateLimits[w].rate_limit
        /\ Len(Unexpired(reserved[w], w)) <= RateLimits[w].rate_limit
        /\ Unexpired(times[w], w) = Unexpired(reserved[w], w)
        /\ taken[w] = Len(reserved[w])

\* two tasks are suspended in front of the same window, which is full
C13_Witness ==
    \E w \in AllWindows : \E c, d \in Tasks :
        /\ c # d
        /\ cst[c] = "sleep" /\ at[c] = w
        /\ cst[d] = "sleep" /\ at[d] = w
        /\ Len(Unexpired(reserved[w], w)) = RateLimits[w].rate_limit

\* the tasks whose call got to client.get and found the session closed
ClosedOut == { i \in Tasks : tres[i] = [ok |-> FALSE, error |-> "Session is closed"] }

\* the callers that hold a reservation of window w and have not got to
\* _request yet
Entering(w) == { c \in Callers : cst[c] = "sleep" /\ w \in entered[c] }

\* ages one tick later
Aged(ages, w) == [k \in 1..Len(ages) |-> Min(ages[k] + 1, Expired(w))]

IsPrefix(a, b) == Len(a) <= Len(b) /\ SubSeq(b, 1, Len(a)) = a

\* every call that got to _request has taken one reservation of window w,
\* and so has every caller on its way there
OneSlotPerCall ==
    (\A i \in Tasks : tpc[i] # "cancelled") =>
        \A w \in AllWindows :
            Len(reserved[w]) =
                Len(sent) + Cardinality(ClosedOut) + Cardinality(Entering(w))

\* a step either lets time pass or keeps every unexpired reservation of
\* every window where it is; a task that leaves call_api, with a result or
\* with an exception, leaves the limiters as they are
FreedOnlyByTime ==
    /\ \A w \in AllWindows :
          \/ times'[w] = Aged(times[w], w)
          \/ IsPrefix(Unexpired(times[w], w), Unexpired(times'[w], w))
    /\ \A i \in Tasks :
          (cst[i] = "request" /\ cst'[i] = "idle") =>
              /\ times' = times
              /\ reserved' = reserved

\* C14: each call that reaches _request has consumed exactly one slot of
\* every window, whether the request then succeeds or fails; leaving the
\* limiter stack changes no window; a reservation stops blocking only when
\* its period has passed.
C14_SlotsOutliveTheRequest ==
    /\ []OneSlotPerCall
    /\ [][FreedOnlyByTime]_vars

\* a task's request has failed and window 2 is still full, the failed
\* call's reservation included
C14_Witness ==
    \E i \in Tasks :
        /\ tpc[i] = "failed"
        /\ detail[i] = HttpError
        /\ times[2][RateLimit2] <= Period2
        /\ Len(Unexpired(times[2], 2)) = RateLimit2
        /\ Len(sent) > RateLimit2

\* the tasks that returned a normalized match
DoneTasks == { i \in Tasks : tpc[i] = "done" }

\* C15: whatever the order in which the match details are requested and
\* answered, a task that succeeds has asked for the gameId of its own
\* reference and returns that reference's timestamp with the win flag
\* computed from the answer to that request; every printed match pairs the
\* timestamp of one reference with the win flag of that same reference.
C15_CorrelatedByReference ==
    /\ \A i \in DoneTasks :
          /\ Cardinality(SentBy(i)) = 1
          /\ \A k \in SentBy(i) : sent[k].query = Refs[i].gameId
          /\ tres[i] = Expected(detail[i], summoner_info.id, Refs[i].timestamp)
    /\ mainpc = "done" =>
          \A k \in 1..Len(matches) :
              \E i \in DoneTasks :
                  /\ matches[k].timestamp = Refs[i].timestamp
                  /\ matches[k].win =
                        Expected(detail[i], summoner_info.id, Refs[i].timestamp).value.win

\* a finished run in which the second reference's detail was requested
\* first and the two matches have different outcomes
C15_Witness ==
    /\ mainpc = "done"
    /\ DoneTasks = 1..MaxMatches
    /\ sent[3].who = 2
    /\ tres[1].value.win # tres[2].value.win

\* task i's detail has an identity of the target, and no participants entry
\* with the participantId of the first such identity
WinStatusMissing(i) ==
    /\ Answered(i)
    /\ Has(detail[i], "participantIdentities")
    /\ IdentityHits(detail[i], args[i].summoner_id) # {}
    /\ ParticipantHits(detail[i],
           detail[i].participantIdentities[
               Least(IdentityHits(detail[i], args[i].summoner_id))].participantId) = {}

\* C16: a task whose detail names the target but has no participants entry
\* with the target's participantId, the participants list being absent
\* included, fails with the win-status error, returns no record, and its
\* match is not in the output.
C16_MissingWinStatusFails ==
    \A i \in Tasks :
        WinStatusMissing(i) =>
            /\ tpc[i] = "failed"
            /\ tres[i] = [ok |-> FALSE, error |-> "Failed to fetch win status"]
            /\ mainpc = "done" =>
                  \A k \in 1..Len(matches) : matches[k].timestamp # args[i].timestamp

\* a finished run whose only detail names the target as participant 1 and
\* lists only participant 2, who won
C16_Witness ==
    /\ mainpc = "done"
    /\ WinStatusMissing(1)
    /\ Has(detail[1], "participants")
    /\ Len(detail[1].participants) = 1
    /\ detail[1].participants[1].stats.win
    /\ matches = << >>

\* a step of task i: its first step, a resumption inside a limiter, its
\* cancellation, or the arrival of its response
TaskStep(i) ==
    \/ TaskStart(i)
    \/ Wake(i)
    \/ CancelOrphan(i)
    \/ \E resp \in DetailBodies \cup {HttpError} : DetailResponse(i, resp)

\* the step leaves alone everything but the limiters (and the logs kept of
\* them) and task i's own call and result
OnlyOwnState(i) ==
    /\ UNCHANGED << summoner_info, match_history, args, matches, mainpc, error >>
    /\ \A j \in Callers \ {i} :
          /\ cst'[j] = cst[j]
          /\ at'[j] = at[j]
          /\ entered'[j] = entered[j]
          /\ wake'[j] = wake[j]
    /\ \A j \in Tasks \ {i} :
          /\ tpc'[j] = tpc[j]
          /\ tres'[j] = tres[j]
          /\ detail'[j] = detail[j]

\* C17: a step of a stage-3 task changes only the limiters' reservations
\* and that task's own call and result: the summoner, the match list, the
\* arguments, the orchestrator and every other task's call and result are
\* left as they were.
C17_TasksShareOnlyLimiters ==
    [][\A i \in Tasks : TaskStep(i) => OnlyOwnState(i)]_vars

\* task 1 has finished while its sibling's request is still in flight
C17_Witness ==
    /\ tpc[1] = "done"
    /\ tpc[2] = "running"
    /\ cst[2] = "request"
    /\ tres[2] = NoResult
    /\ detail[2] = NoBody

\* the place of task i's record among the records of the successful tasks
RankAmongDone(i) == Cardinality({ j \in DoneTasks : j <= i })

\* the position in the match list of the reference with timestamp ts
RefPos(ts) == CHOOSE p \in 1..Len(Refs) : Refs[p].timestamp = ts

\* C18: the printed list is the match list in the service's order with the
\* failed entries left out: one record per successful task, the record of
\* reference i before that of reference j whenever i < j, whatever the
\* order in which the tasks were admitted and answered.
C18_OutputInReferenceOrder ==
    mainpc = "done" =>
        /\ Len(matches) = Cardinality(DoneTasks)
        /\ \A i \in DoneTasks : matches[RankAmongDone(i)] = tres[i].value
        /\ \A k, l \in 1..Len(matches) :
              k < l => RefPos(matches[k].timestamp) < RefPos(matches[l].timestamp)

\* a finished run with every match in the output, in which a later
\* reference's request went out before the first one's
C18_Witness ==
    /\ mainpc = "done"
    /\ Len(matches) = MaxMatches
    /\ sent[3].who # 1

\* C19: whenever get_match_history is left by an exception, no stage-3 task
\* has been launched: none is scheduled, running or finished, none holds or
\* has taken a reservation, none has sent a request.
C19_NoOrphanedTasks ==
    mainpc = "aborted" =>
        /\ LaunchedTasks = {}
        /\ \A i \in Tasks : entered[i] = {} /\ SentBy(i) = {}
        /\ \A w \in AllWindows : Len(reserved[w]) = Len(sent)

\* the summoner lookup returned a body with accountId and without id
IdMissing == Has(summoner_info, "accountId") /\ ~Has(summoner_info, "id")

\* C20: a summoner response with accountId and without id passes stage 1:
\* the orchestrator goes on to the match-list request, and no run with such
\* a response ends without having sent it; once the match list is there,
\* the run is aborted (KeyError, no task launched) if the list is not
\* empty, and ends normally with an empty output if it is empty.
C20_MissingIdSurfacesAtFanOut ==
    IdMissing =>
        /\ mainpc \in {"matches", "done", "aborted"}
        /\ mainpc = "matches" => cst[Main] \in {"sleep", "request"}
        /\ error \notin {"No key accountId", "Failed to get info for summoner"}
        /\ mainpc \in {"done", "aborted"} => Endpoints = << "SUMMONER", "MATCHES" >>
        /\ GotMatches =>
              /\ Len(Refs) > 0 =>
                    /\ mainpc = "aborted"
                    /\ error = "KeyError"
                    /\ LaunchedTasks = {}
              /\ Len(Refs) = 0 =>
                    /\ mainpc = "done"
                    /\ error = ""
                    /\ matches = << >>

\* the run was aborted on a list of MaxMatches well-formed references
C20_Witness ==
    /\ IdMissing
    /\ GotMatches
    /\ RefsWellFormed
    /\ Len(Refs) = MaxMatches
    /\ mainpc = "aborted"

====
